---- MODULE Spec2Model ----
(***************************************************************************)
(* PelvicFit Mini: the exercise session state machine and timer of         *)
(* js/exercise.js (class Exercise), with the session list and the stats   *)
(* of js/storage.js that it appends to.                                    *)
(*                                                                         *)
(* Time is the value of Date.now() in milliseconds.  A handler runs to     *)
(* completion on the single JavaScript thread, so each action reads one    *)
(* clock value, now; the clock moves between handlers (AdvanceClock).      *)
(* A Date.now() value is positive, so null is the falsy value Null = 0 and *)
(* a field the constructor never assigned is Undefined, also falsy.        *)
(* window.storage is present: App.validateModules requires it.             *)
(*                                                                         *)
(* Spec follows one instance through any interleaving of start, tick,      *)
(* pause, resume, stop and the clock, with a half-second clock and plans   *)
(* short enough to complete.  SpecRun runs each preset and custom plan     *)
(* from start to completion by its tick timer alone.  SpecPause runs one   *)
(* session with pauses on a quarter-second clock with ticks that fire on   *)
(* time.  SpecVis adds the page: the visibilitychange listeners of         *)
(* js/exercise.js and js/app.js and the dialog App shows on return.        *)
(* SpecCalc calls calculatePlanDuration on plans of small fields.          *)
(* SpecStore follows the stats of js/storage.js over saves,                *)
(* recalculations and days, SpecDelete with deletions of records too, and  *)
(* SpecUnlock follows the achievements over saves of long sessions and     *)
(* deletions.  SpecLive runs one valid plan for ever under fairness of     *)
(* the timer, the clock and resume.                                        *)
(***************************************************************************)
EXTENDS Integers, Sequences, FiniteSets, TLC

\* ---------------------------------------------------------------- bounds
\* first clock value, the granularity of the clock and the last clock value
InitialNow == 1000
ClockStep == 500
MaxNow == 6000
\* the clock of the tick-driven full runs (specification SpecRun)
RunClockStep == 1000
MaxRunNow == 1470000

\* the clock of the runs with pauses (specification SpecPause): the tick
\* timer fires at every instant of it
PauseClockStep == 250
MaxPauseNow == 6000

\* the clock of the runs on a page that is hidden and shown (specification
\* SpecVis)
VisClockStep == 2500
MaxVisNow == 11000

\* the largest field of the plans passed to calculatePlanDuration
\* (specification SpecCalc)
MaxField == 3

\* the runs under fairness (specification SpecLive): the clock never stops;
\* past MaxLiveNow the origin of time is moved forward by LiveEpoch
LiveClockStep == 500
MaxLiveNow == 13000
LiveEpoch == 6000

\* the days and the records of the session history (specification
\* SpecStore)
MaxDay == 4
MaxSessions == 4

\* ----------------------------------------------------------- plain values
\* null, and a field the constructor never assigned
Null == 0
Undefined == 0 - 1

NoPlan ==
    [name |-> "none", contractTime |-> 0, relaxTime |-> 0, sets |-> 0,
     repsPerSet |-> 0, restTime |-> 0]

\* this.plans of the constructor
plans ==
    [beginner |->
        [name |-> "beginner", contractTime |-> 3, relaxTime |-> 3, sets |-> 3,
         repsPerSet |-> 10, restTime |-> 30],
     intermediate |->
        [name |-> "intermediate", contractTime |-> 5, relaxTime |-> 5,
         sets |-> 3, repsPerSet |-> 15, restTime |-> 45],
     advanced |->
        [name |-> "advanced", contractTime |-> 8, relaxTime |-> 8, sets |-> 4,
         repsPerSet |-> 20, restTime |-> 60]]

\* a lookup that falls back to the beginner plan
getPlanOrBeginner(planName) ==
    IF planName \in DOMAIN plans THEN plans[planName] ELSE plans.beginner

\* getPlan(planName): this.plans[planName] || null
getPlan(planName) ==
    IF planName \in DOMAIN plans THEN plans[planName] ELSE NoPlan

\* the names a caller passes: the presets and one that is no preset
PlanNames == {"beginner", "expert"}

\* what UI.getCustomPlanFromDialog builds from the five number inputs; it
\* validates nothing, so zero fields reach startExercise
MkPlan(c, r, s, n, t) ==
    [name |-> "custom", contractTime |-> c, relaxTime |-> r, sets |-> s,
     repsPerSet |-> n, restTime |-> t]

CustomPlans ==
    { MkPlan(1, 1, 1, 2, 0), MkPlan(1, 1, 2, 1, 0), MkPlan(1, 1, 1, 1, 0),
      MkPlan(1, 1, 0, 1, 0), MkPlan(1, 1, 2, 0, 0) }

\* parseInt reads a sign: a custom plan with a negative contraction time
NegativePlans == { MkPlan(0 - 1, 1, 1, 1, 0) }

\* valid custom plans of a few seconds
LivePlans ==
    { MkPlan(1, 1, 1, 2, 0), MkPlan(1, 1, 2, 1, 1), MkPlan(2, 1, 1, 1, 0) }

\* the plans of the full runs: every preset and every custom plan
RunPlanNames == {"beginner", "intermediate", "advanced"}

\* TrainingPlan of the data model: positive fields, restTime >= 0
ValidPlan(p) ==
    /\ p.contractTime > 0
    /\ p.relaxTime > 0
    /\ p.sets > 0
    /\ p.repsPerSet > 0
    /\ p.restTime >= 0

Max(a, b) == IF a >= b THEN a ELSE b

\* JavaScript's x || d on numbers
OrElse(x, d) == IF x = 0 THEN d ELSE x

\* ------------------------------------------------------------------ state
VARIABLES
    now,                \* Date.now()
    isActive,
    isPaused,
    currentPhase,
    currentSet,
    currentRep,
    timer,              \* this.timer is an interval handle (TRUE) or null
    intervals,          \* number of setInterval timers armed and not cleared
    startTime,
    pausedTime,
    phaseStartTime,
    phaseTimeRemaining,
    pauseStartTime,
    currentPlan,
    sessions,           \* storage: the 'sessions' list
    lastOp,             \* the last method called on the session
    ret,                \* what it returned
    segments,           \* phase segments entered since the last start
    remAtPause,         \* phaseTimeRemaining when pause() was last called
    resumedAt,          \* clock of resume() for the second that follows
                        \* it, while only ticks are called; else Null
    tickRemaining,      \* the value the last call computed, if it was a
                        \* tick (line 212)
    started,            \* a session has been started on this instance
    emitted,            \* the events the last call of Exercise dispatched,
                        \* in order, each with its detail
    phaseRun,           \* unpaused milliseconds spent in the current phase
    sessionRun,         \* unpaused milliseconds since the last start
    hidden,             \* document.hidden
    backgroundTime,     \* Exercise.backgroundTime
    backgroundPaused,   \* App.backgroundPaused
    dialog,             \* the 'continue training' dialog is displayed
    atHide,             \* the clock and the session when the view was last
                        \* hidden
    asked,              \* the plan last passed to calculatePlanDuration
    minutes,            \* what that call returned
    today,              \* the calendar day of new Date(), as a day number
    stats,              \* storage: the 'stats' object
    issued,             \* the number of record ids generateId has returned
    announced,          \* for each achievement id, the number of
                        \* achievementUnlocked events that have named it
    pausedBy            \* who called the pause() that is in effect: the
                        \* user, App.onAppHidden ("app"), the listener of
                        \* Exercise ("exercise"), or "none"

vars ==
    <<now, isActive, isPaused, currentPhase, currentSet, currentRep, timer,
      intervals, startTime, pausedTime, phaseStartTime, phaseTimeRemaining,
      pauseStartTime, currentPlan, sessions, lastOp, ret, segments,
      remAtPause, resumedAt, tickRemaining, started, emitted, phaseRun,
      sessionRun, hidden, backgroundTime, backgroundPaused, dialog, atHide,
      asked, minutes, today, stats, issued, announced, pausedBy>>

\* the fields of the Exercise instance
session ==
    <<isActive, isPaused, currentPhase, currentSet, currentRep, timer,
      intervals, startTime, pausedTime, phaseStartTime, phaseTimeRemaining,
      pauseStartTime, currentPlan>>

\* the page around the session: its visibility, the fields the two
\* visibilitychange listeners keep and the dialog of UI.showDialog
view == <<hidden, backgroundTime, backgroundPaused, dialog, atHide>>

\* the last call of calculatePlanDuration
calc == <<asked, minutes>>

Phases == {"prepare", "contract", "relax", "rest", "complete"}

NoSegments == [p \in Phases |-> 0]

NeverHidden ==
    [time |-> Null, isActive |-> FALSE, isPaused |-> FALSE,
     phase |-> "prepare", set |-> 1, rep |-> 1]

\* defaultStats of Storage.initializeData
defaultStats ==
    [totalSessions |-> 0, totalDuration |-> 0, currentStreak |-> 0,
     maxStreak |-> 0, achievements |-> << >>, firstSessionDate |-> Null,
     lastSessionDate |-> Null]

\* the ids of achievementChecks, in its order
AchievementIds ==
    <<"first_session", "week_streak", "month_streak", "sessions_50",
      "sessions_100", "total_hours_10">>

\* the constructor; phaseStartTime, phaseTimeRemaining and pauseStartTime
\* are not assigned by it
Init ==
    /\ now = InitialNow
    /\ isActive = FALSE
    /\ isPaused = FALSE
    /\ currentPhase = "prepare"
    /\ currentSet = 1
    /\ currentRep = 1
    /\ timer = FALSE
    /\ intervals = 0
    /\ startTime = Null
    /\ pausedTime = 0
    /\ phaseStartTime = Undefined
    /\ phaseTimeRemaining = Undefined
    /\ pauseStartTime = Undefined
    /\ currentPlan = NoPlan
    /\ sessions = << >>
    /\ lastOp = "new"
    /\ ret = "none"
    /\ segments = NoSegments
    /\ remAtPause = Undefined
    /\ resumedAt = Null
    /\ tickRemaining = Undefined
    /\ started = FALSE
    /\ emitted = << >>
    /\ phaseRun = 0
    /\ sessionRun = 0
    /\ hidden = FALSE
    /\ backgroundTime = Undefined
    /\ backgroundPaused = FALSE
    /\ dialog = FALSE
    /\ atHide = NeverHidden
    /\ asked = NoPlan
    /\ minutes = 0
    /\ today = 1
    /\ stats = defaultStats
    /\ issued = 0
    /\ announced = [i \in DOMAIN AchievementIds |-> 0]
    /\ pausedBy = "none"

\* -------------------------------------------------------------- functions
\* getPhaseTime() of a phase under a plan
PhaseTime(phase, plan) ==
    CASE phase = "prepare" -> 3
      [] phase = "contract" -> plan.contractTime
      [] phase = "relax" -> plan.relaxTime
      [] phase = "rest" -> plan.restTime
      [] OTHER -> 0

getPhaseTime == PhaseTime(currentPhase, currentPlan)

\* getTotalDuration() at clock t
getTotalDuration(t) ==
    IF startTime = Null THEN 0 ELSE t - startTime - pausedTime

\* generateId(): the clock and a random number, an id no record has had
generateId == issued + 1

\* the sessionData of Exercise.saveSession(completed) as stored by
\* Storage.saveSession
SessionRecord(completed) ==
    [id |-> generateId,
     date |-> today,
     plan |-> currentPlan.name,
     duration |-> OrElse(getTotalDuration(now) \div 1000, 0),
     contractTime |-> OrElse(currentPlan.contractTime, 3),
     relaxTime |-> OrElse(currentPlan.relaxTime, 3),
     sets |-> OrElse(currentPlan.sets, 1),
     repetitions |-> OrElse(currentPlan.repsPerSet, 1),
     completed |-> completed,
     completedSets |->
        OrElse(IF completed THEN currentPlan.sets
               ELSE Max(0, currentSet - 1), 0),
     completedReps |->
        OrElse(IF completed THEN currentPlan.repsPerSet * currentPlan.sets
               ELSE (currentSet - 1) * currentPlan.repsPerSet
                    + Max(0, currentRep - 1), 0)]

\* saveSession(completed): the list after the call
saveSession(completed) ==
    IF currentPlan = NoPlan THEN sessions
    ELSE Append(sessions, SessionRecord(completed))

\* a count of repetitions that includes the one in progress
progressRepsWithCurrent ==
    (currentSet - 1) * currentPlan.repsPerSet + currentRep

\* completedReps of getProgress()
progressReps ==
    (currentSet - 1) * currentPlan.repsPerSet + (currentRep - 1)

\* getProgress() with phaseTimeRemaining = rem, as the fraction num / den:
\* (completedReps + currentRepProgress) / totalReps, at most 1.  A
\* denominator that is not positive stands for the value JavaScript gives a
\* plan with a zero or negative field.
progress(rem) ==
    IF currentPlan = NoPlan THEN [num |-> 0, den |-> 1]
    ELSE LET totalReps == currentPlan.sets * currentPlan.repsPerSet
             raw == IF currentPhase \in {"contract", "relax"}
                    THEN [num |-> progressReps * getPhaseTime
                                  + (getPhaseTime - rem),
                          den |-> totalReps * getPhaseTime]
                    ELSE [num |-> progressReps, den |-> totalReps]
         IN  IF raw.den > 0 /\ raw.num > raw.den
             THEN [num |-> 1, den |-> 1]
             ELSE raw

getProgress == progress(phaseTimeRemaining)

\* a division that drops the fraction
MathFloor(n, d) == n \div d

\* Math.round(n / d) for d > 0: the nearest integer, a half rounded up
MathRound(n, d) == (2 * n + d) \div (2 * d)

\* calculatePlanDuration(plan)
calculatePlanDuration(plan) ==
    IF plan = NoPlan THEN 0
    ELSE LET singleRepTime == plan.contractTime + plan.relaxTime
             singleSetTime == singleRepTime * plan.repsPerSet
             totalExerciseTime == singleSetTime * plan.sets
             totalRestTime == plan.restTime * (plan.sets - 1)
             prepareTime == 3
             totalSeconds == prepareTime + totalExerciseTime + totalRestTime
         IN  MathRound(totalSeconds, 60)

\* showMessage(message): the event, without its text
showMessage == [event |-> "showMessage"]

\* updateUI(): the exerciseStateChanged event with its detail
updateUI ==
    [event |-> "exerciseStateChanged",
     isActive |-> isActive,
     isPaused |-> isPaused,
     phase |-> currentPhase,
     currentSet |-> currentSet,
     totalSets |-> currentPlan.sets,
     currentRep |-> currentRep,
     totalReps |-> currentPlan.repsPerSet,
     timeRemaining |-> phaseTimeRemaining,
     totalPhaseTime |-> getPhaseTime]

\* updateTimer() when tick() has computed rem: the timerUpdate event
updateTimer(rem) ==
    [event |-> "timerUpdate",
     timeRemaining |-> rem,
     totalPhaseTime |-> getPhaseTime,
     progress |-> progress(rem)]

\* a streak update that reads the date of the session before this one
updateStreakDaysSince(st, lastDate, day) ==
    IF lastDate = Null
    THEN [st EXCEPT !.currentStreak = 1, !.maxStreak = 1]
    ELSE LET diffDays == day - lastDate
             streak == IF diffDays = 1 THEN st.currentStreak + 1
                       ELSE IF diffDays = 0 THEN st.currentStreak
                       ELSE 1
         IN  [st EXCEPT !.currentStreak = streak,
                        !.maxStreak = Max(st.maxStreak, streak)]

\* Storage.updateStreakDays(stats, today): lastDate is read from the stats
\* it is given
updateStreakDays(st, day) == updateStreakDaysSince(st, st.lastSessionDate, day)

\* the stats Storage.updateStats(session) has counted on day `day` when it
\* calls checkAchievements; it sets lastSessionDate before it calls
\* updateStreakDays
countedStats(st, rec, day) ==
    updateStreakDays(
        [st EXCEPT !.totalSessions = @ + 1,
                   !.totalDuration = @ + rec.duration,
                   !.firstSessionDate = IF @ = Null THEN day ELSE @,
                   !.lastSessionDate = day],
        day)

\* the condition of each entry of achievementChecks for the stats st
achievementCondition(st) ==
    <<st.totalSessions >= 1, st.maxStreak >= 7, st.maxStreak >= 30,
      st.totalSessions >= 50, st.totalSessions >= 100,
      st.totalDuration >= 36000>>

\* st.achievements includes the i-th id
includesId(st, i) ==
    \E k \in DOMAIN st.achievements : st.achievements[k] = AchievementIds[i]

\* a check that unlocks whatever condition holds, unlocked before or not
isNewWhenever(st, i) == achievementCondition(st)[i]

\* check.condition && !achievements.includes(check.id)
isNew(st, i) == achievementCondition(st)[i] /\ ~includesId(st, i)

RECURSIVE newAchievementsFrom(_, _)
\* newAchievements of checkAchievements(st), from entry i on
newAchievementsFrom(st, i) ==
    IF i > Len(AchievementIds) THEN << >>
    ELSE (IF isNew(st, i) THEN <<AchievementIds[i]>> ELSE << >>)
         \o newAchievementsFrom(st, i + 1)

newAchievements(st) == newAchievementsFrom(st, 1)

\* Storage.checkAchievements(st): the stats with the ids it pushed
checkAchievements(st) ==
    [st EXCEPT !.achievements = @ \o newAchievements(st)]

\* the achievementUnlocked event of checkAchievements(st), if it dispatches
\* one: the count of every id the event names goes up
dispatchUnlocked(st) ==
    [i \in DOMAIN AchievementIds |->
        announced[i] + (IF isNew(st, i) THEN 1 ELSE 0)]

\* Storage.updateStats(session) on day `day`: the new stats
updateStats(st, rec, day) ==
    IF rec.completed
    THEN checkAchievements(countedStats(st, rec, day))
    ELSE st

\* the dates of the completed sessions: uniqueDates of recalculateStreak
completedDates(ss) ==
    { ss[i].date : i \in { j \in 1..Len(ss) : ss[j].completed } }

RECURSIVE SortedDates(_)
\* [...new Set(dates)].sort()
SortedDates(D) ==
    IF D = {} THEN << >>
    ELSE LET least == CHOOSE d \in D : \A e \in D : d <= e
         IN  <<least>> \o SortedDates(D \ {least})

\* a maximum that is never raised from its first value
maxStreakLoopSkipped(u, i, tempStreak, maxStreak) == maxStreak

RECURSIVE maxStreakLoop(_, _, _, _)
\* the first loop of recalculateStreak from index i, with its tempStreak and
\* maxStreak, and the Math.max that follows it
maxStreakLoop(u, i, tempStreak, maxStreak) ==
    IF i > Len(u) THEN Max(maxStreak, tempStreak)
    ELSE IF u[i] - u[i - 1] = 1
    THEN maxStreakLoop(u, i + 1, tempStreak + 1, maxStreak)
    ELSE maxStreakLoop(u, i + 1, 1, Max(maxStreak, tempStreak))

RECURSIVE currentStreakLoop(_, _, _)
\* the second loop of recalculateStreak, down from index i (0-based i is
\* i - 1 here)
currentStreakLoop(u, i, streak) ==
    IF i < 1 THEN streak
    ELSE IF u[i + 1] - u[i] = 1
    THEN currentStreakLoop(u, i - 1, streak + 1)
    ELSE streak

\* the stats Storage.recalculateStats() has built from the records ss on day
\* `day` when it calls checkAchievements; the achievements are those of the
\* stored stats
recountedStats(ss, day) ==
    LET u == SortedDates(completedDates(ss))
        done == { j \in 1..Len(ss) : ss[j].completed }
        RECURSIVE Sum(_)
        Sum(J) == IF J = {} THEN 0
                  ELSE LET j == CHOOSE k \in J : TRUE
                       IN  ss[j].duration + Sum(J \ {j})
    IN  [totalSessions |-> Cardinality(done),
         totalDuration |-> Sum(done),
         currentStreak |->
            IF u = << >> THEN 0
            ELSE IF day - u[Len(u)] <= 1
            THEN currentStreakLoop(u, Len(u) - 1, 1)
            ELSE 0,
         maxStreak |-> IF u = << >> THEN 0 ELSE maxStreakLoop(u, 2, 1, 1),
         achievements |-> stats.achievements,
         firstSessionDate |-> IF u = << >> THEN Null ELSE u[1],
         lastSessionDate |-> IF u = << >> THEN Null ELSE u[Len(u)]]

\* Storage.recalculateStats() on day `day`
recalculateStats(ss, day) == checkAchievements(recountedStats(ss, day))

\* a filter that also drops every record saved after the one it is given
deleteSessionFrom(ss, sessionId) ==
    SelectSeq(ss, LAMBDA record : record.id < sessionId)

\* the list deleteSession(sessionId) stores:
\* sessions.filter(session => session.id !== sessionId)
deleteSession(ss, sessionId) ==
    SelectSeq(ss, LAMBDA record : record.id # sessionId)

\* bookkeeping of what was called, what it returned and the values the
\* claims about pause, resume and tick compare (no field of the program)
Observed(op, r, tr, ra, rp, ev) ==
    /\ lastOp' = op
    /\ emitted' = ev
    /\ ret' = r
    /\ tickRemaining' = tr
    /\ resumedAt' = ra
    /\ remAtPause' = rp

\* remAtPause is kept while the session is paused
keepRem == IF isPaused THEN remAtPause ELSE Undefined

\* startTimer(): clears the interval this.timer holds, arms a new one
startTimer ==
    /\ intervals' = (IF timer THEN intervals - 1 ELSE intervals) + 1
    /\ timer' = TRUE

\* a clear that forgets the handle and leaves the interval running
clearTimerKeepsInterval ==
    /\ intervals' = intervals
    /\ timer' = FALSE

\* if (this.timer) { clearInterval(this.timer); this.timer = null; }
clearTimer ==
    /\ intervals' = (IF timer THEN intervals - 1 ELSE intervals)
    /\ timer' = FALSE

\* -------------------------------------------------------------- operations
\* the plan startExercise(planName, customPlan) selects; customPlan = NoPlan
\* is the default null
selectPlan(planName, customPlan) ==
    IF customPlan # NoPlan
    THEN [customPlan EXCEPT !.name = "custom"]
    ELSE getPlan(planName)

\* a start that never looks at isActive
neverActive == FALSE

\* if (this.isActive) return false
alreadyActive == isActive

\* a start that leaves the counters of the previous run
keepCounters == [set |-> currentSet, rep |-> currentRep]

\* this.currentSet = 1; this.currentRep = 1
startCounters == [set |-> 1, rep |-> 1]

\* startExercise(planName, customPlan)
startExercise(planName, customPlan) ==
    LET plan == selectPlan(planName, customPlan)
    IN  IF alreadyActive
        THEN /\ Observed("start", "false", Undefined, Null, keepRem, << >>)
             /\ UNCHANGED <<now, session, sessions, segments, started>>
        ELSE IF plan = NoPlan
        THEN /\ currentPlan' = plan
             /\ Observed("start", "false", Undefined, Null, Undefined, << >>)
             /\ UNCHANGED <<now, isActive, isPaused, currentPhase,
                            currentSet, currentRep, timer, intervals,
                            startTime, pausedTime, phaseStartTime,
                            phaseTimeRemaining, pauseStartTime, sessions,
                            segments, started>>
        ELSE /\ currentPlan' = plan
             /\ isActive' = TRUE
             /\ isPaused' = FALSE
             /\ currentPhase' = "prepare"
             /\ currentSet' = startCounters.set
             /\ currentRep' = startCounters.rep
             /\ startTime' = now
             /\ pausedTime' = 0
             /\ phaseStartTime' = now
             /\ phaseTimeRemaining' = 3
             /\ startTimer
             /\ segments' = [NoSegments EXCEPT !["prepare"] = 1]
             /\ started' = TRUE
             /\ UNCHANGED <<now, pauseStartTime, sessions>>
             /\ Observed("start", "true", Undefined, Null, Undefined,
                         <<updateUI'>>)

\* nextPhase(), one definition per case of its switch: the phase, set and
\* rep the case leaves, and whether it took the completeExercise() branch
afterPrepare ==
    [phase |-> "contract", set |-> currentSet, rep |-> currentRep,
     done |-> FALSE]

afterContract ==
    [phase |-> "relax", set |-> currentSet, rep |-> currentRep,
     done |-> FALSE]

\* the comparisons of the relax case made strict
afterRelaxStrict ==
    IF currentRep + 1 < currentPlan.repsPerSet
    THEN [phase |-> "contract", set |-> currentSet, rep |-> currentRep + 1,
          done |-> FALSE]
    ELSE IF currentSet + 1 < currentPlan.sets
    THEN [phase |-> "rest", set |-> currentSet + 1, rep |-> 1,
          done |-> FALSE]
    ELSE [phase |-> "complete", set |-> currentSet + 1, rep |-> 1,
          done |-> TRUE]

afterRelax ==
    IF currentRep + 1 <= currentPlan.repsPerSet
    THEN [phase |-> "contract", set |-> currentSet, rep |-> currentRep + 1,
          done |-> FALSE]
    ELSE IF currentSet + 1 <= currentPlan.sets
    THEN [phase |-> "rest", set |-> currentSet + 1, rep |-> 1,
          done |-> FALSE]
    ELSE [phase |-> "complete", set |-> currentSet + 1, rep |-> 1,
          done |-> TRUE]

\* a rest that falls through to another rest phase and counts a set
afterRestAgain ==
    [phase |-> "rest", set |-> currentSet + 1, rep |-> currentRep,
     done |-> FALSE]

afterRest ==
    [phase |-> "contract", set |-> currentSet, rep |-> currentRep,
     done |-> FALSE]

nextPhase ==
    CASE currentPhase = "prepare" -> afterPrepare
      [] currentPhase = "contract" -> afterContract
      [] currentPhase = "relax" -> afterRelax
      [] currentPhase = "rest" -> afterRest
      [] OTHER ->
            [phase |-> currentPhase, set |-> currentSet, rep |-> currentRep,
             done |-> FALSE]

\* what tick() assigns to phaseTimeRemaining at clock t
tickValue(t) ==
    Max(0, getPhaseTime - ((t - phaseStartTime) \div 1000))

\* a completion that saves no record
completeWithoutSave ==
    /\ currentPhase' = "complete"
    /\ isActive' = FALSE
    /\ clearTimer
    /\ sessions' = sessions

\* a completion that forgets to clear isActive
completeStillActive ==
    /\ currentPhase' = "complete"
    /\ isActive' = TRUE
    /\ clearTimer
    /\ sessions' = saveSession(TRUE)

\* completeExercise(), entered from nextPhase() with the set and rep
\* counters already advanced
completeExercise ==
    /\ currentPhase' = "complete"
    /\ isActive' = FALSE
    /\ clearTimer
    /\ sessions' = saveSession(TRUE)

\* a phase that starts when the phase before it was due to end
enteredPhaseStartOnSchedule == phaseStartTime + getPhaseTime * 1000

\* this.phaseStartTime = Date.now() at the end of nextPhase()
enteredPhaseStart == now

\* a tick that dispatches the events of its transition before timerUpdate
tickEventsLate(rem, done) ==
    (IF rem > 0 THEN << >>
     ELSE IF done THEN <<updateUI', showMessage>>
     ELSE <<updateUI'>>) \o <<updateTimer(rem)>>

\* the events of a running tick(): updateTimer(), then those of nextPhase()
\* when the phase has ended: updateUI(), from completeExercise() followed
\* by showMessage()
tickEvents(rem, done) ==
    <<updateTimer(rem)>> \o
        (IF rem > 0 THEN << >>
         ELSE IF done THEN <<updateUI', showMessage>>
         ELSE <<updateUI'>>)

\* a tick that only an inactive session ignores
tickIgnoredWhenInactive == ~isActive

\* if (!this.isActive || this.isPaused) return
tickIgnored == ~isActive \/ isPaused

\* tick(): the interval callback
tick ==
    IF tickIgnored
    THEN /\ Observed("tick", "none", Undefined, Null, keepRem, << >>)
         /\ UNCHANGED <<now, session, sessions, segments, started>>
    ELSE LET rem == tickValue(now)
             nx == nextPhase
             ra == IF resumedAt # Null /\ now - resumedAt < 1000
                   THEN resumedAt ELSE Null
         IN  /\ IF rem <= 0
                THEN /\ currentSet' = nx.set
                     /\ currentRep' = nx.rep
                     /\ IF nx.done
                        THEN /\ completeExercise
                             /\ phaseTimeRemaining' = rem
                             /\ UNCHANGED <<phaseStartTime, segments>>
                        ELSE /\ currentPhase' = nx.phase
                             /\ phaseStartTime' = enteredPhaseStart
                             /\ phaseTimeRemaining' =
                                    PhaseTime(nx.phase, currentPlan)
                             /\ segments' =
                                    [segments EXCEPT ![nx.phase] = @ + 1]
                             /\ UNCHANGED <<isActive, timer, intervals,
                                            sessions>>
                ELSE /\ phaseTimeRemaining' = rem
                     /\ UNCHANGED <<isActive, currentPhase, currentSet,
                                    currentRep, timer, intervals,
                                    phaseStartTime, sessions, segments>>
             /\ UNCHANGED <<now, isPaused, startTime, pausedTime,
                            pauseStartTime, currentPlan, started>>
             /\ Observed("tick", "none", rem, ra,
                         IF ra # Null THEN remAtPause ELSE Undefined,
                         tickEvents(rem, nx.done))

\* a pause that is refused on a paused session only
pauseRefusedWhenPaused == isPaused

\* a pause that is refused on an idle session only
pauseRefusedWhenIdle == ~isActive

\* a pause that is always refused
pauseRefusedAlways == TRUE

\* if (!this.isActive || this.isPaused) return false
pauseRefused == ~isActive \/ isPaused

\* pause(), followed by the events `more` that its caller dispatches
pauseThen(more) ==
    IF pauseRefused
    THEN /\ Observed("pause", "false", Undefined, Null, keepRem, more)
         /\ UNCHANGED <<now, session, sessions, segments, started>>
    ELSE /\ isPaused' = TRUE
         /\ pauseStartTime' = now
         /\ clearTimer
         /\ UNCHANGED <<now, isActive, currentPhase, currentSet, currentRep,
                        startTime, pausedTime, phaseStartTime,
                        phaseTimeRemaining, currentPlan, sessions, segments,
                        started>>
         /\ Observed("pause", "true", Undefined, Null, phaseTimeRemaining,
                     <<updateUI'>> \o more)

\* pause()
pause == pauseThen(<< >>)

\* a resume that restarts the phase clock without the elapsed time
resumePhaseStartNow(t) == t

\* the phaseStartTime resume() computes at clock t
resumePhaseStart(t) ==
    t - (getPhaseTime - phaseTimeRemaining) * 1000

\* resume()
resume ==
    IF ~isActive \/ ~isPaused
    THEN /\ Observed("resume", "false", Undefined, Null, keepRem, << >>)
         /\ UNCHANGED <<now, session, sessions, segments, started>>
    ELSE /\ isPaused' = FALSE
         /\ IF pauseStartTime > Null
            THEN /\ pausedTime' = pausedTime + (now - pauseStartTime)
                 /\ pauseStartTime' = Null
            ELSE UNCHANGED <<pausedTime, pauseStartTime>>
         /\ phaseStartTime' = resumePhaseStart(now)
         /\ startTimer
         /\ UNCHANGED <<now, isActive, currentPhase, currentSet, currentRep,
                        startTime, phaseTimeRemaining, currentPlan, sessions,
                        segments, started>>
         /\ Observed("resume", "true", Undefined, now, remAtPause,
                     <<updateUI'>>)

\* a reset that leaves the set and rep counters
resetKeepsCounters ==
    /\ isActive' = FALSE
    /\ isPaused' = FALSE
    /\ currentPhase' = "prepare"
    /\ UNCHANGED <<currentSet, currentRep>>
    /\ startTime' = Null
    /\ pausedTime' = 0
    /\ phaseTimeRemaining' = 0
    /\ clearTimer

\* reset()
reset ==
    /\ isActive' = FALSE
    /\ isPaused' = FALSE
    /\ currentPhase' = "prepare"
    /\ currentSet' = 1
    /\ currentRep' = 1
    /\ startTime' = Null
    /\ pausedTime' = 0
    /\ phaseTimeRemaining' = 0
    /\ clearTimer

\* a stop that saves a record whatever the progress
stopSavesAlways == TRUE

\* if (this.currentSet > 1 || this.currentRep > 1)
stopSaves == currentSet > 1 \/ currentRep > 1

\* stop()
stop ==
    IF ~isActive
    THEN /\ Observed("stop", "false", Undefined, Null, Undefined, << >>)
         /\ UNCHANGED <<now, session, sessions, segments, started>>
    ELSE /\ sessions' = IF stopSaves
                        THEN saveSession(FALSE)
                        ELSE sessions
         /\ reset
         /\ segments' = NoSegments
         /\ UNCHANGED <<now, phaseStartTime, pauseStartTime, currentPlan,
                        started>>
         /\ Observed("stop", "true", Undefined, Null, Undefined,
                     <<updateUI'>>)

\* the wall clock moves on between two handlers; it is followed from the
\* first start, at InitialNow
AdvanceClock ==
    /\ started
    /\ now + ClockStep <= MaxNow
    /\ now' = now + ClockStep
    /\ resumedAt' = IF resumedAt # Null /\ now' - resumedAt < 1000
                    THEN resumedAt ELSE Null
    /\ remAtPause' = IF isPaused \/ resumedAt' # Null
                     THEN remAtPause ELSE Undefined
    /\ UNCHANGED <<session, sessions, lastOp, ret, segments, tickRemaining,
                   started, emitted>>

\* the caller of a pause() that took effect in this step: App.onAppHidden
\* as the page is hidden, the listener of Exercise as it is shown again, the
\* user otherwise
Blamed ==
    pausedBy' = IF isPaused' /\ ~isPaused
                THEN (IF hidden' /\ ~hidden THEN "app"
                      ELSE IF hidden /\ ~hidden' THEN "exercise"
                      ELSE "user")
                ELSE IF isPaused' THEN pausedBy
                ELSE "none"

\* the unpaused time a step adds to the running phase and session: the
\* clock runs for a session that is active and not paused, a phase begins
\* when the start or a tick enters a segment, a session when startTime is set
Track ==
    LET run == IF isActive /\ ~isPaused THEN now' - now ELSE 0
    IN  /\ phaseRun' = IF segments' # segments THEN 0 ELSE phaseRun + run
        /\ sessionRun' = IF startTime' # startTime THEN 0
                          ELSE sessionRun + run
        /\ Blamed

\* Storage.saveSession ends with updateStats(session): the stats after a
\* step that appended a record; the day does not change within a session
Stored ==
    LET saved == sessions' # sessions
        record == sessions'[Len(sessions')]
    IN  /\ stats' = IF saved THEN updateStats(stats, record, today)
                    ELSE stats
        /\ issued' = IF saved THEN issued + 1 ELSE issued
        /\ announced' = IF saved /\ record.completed
                        THEN LET st == countedStats(stats, record, today)
                             IN  dispatchUnlocked(st)
                        ELSE announced
        /\ UNCHANGED today

\* a step of the session on a page that stays as it is
Alone == UNCHANGED <<view, calc>> /\ Track /\ Stored

\* a caller started a preset by name or a custom plan
Start ==
    \E planName \in PlanNames, customPlan \in CustomPlans \cup {NoPlan} :
        startExercise(planName, customPlan)

Next ==
    \/ Start /\ Alone
    \/ tick /\ Alone
    \/ pause /\ Alone
    \/ resume /\ Alone
    \/ stop /\ Alone
    \/ AdvanceClock /\ Alone

Spec == Init /\ [][Next]_vars

\* ------------------------------------------------- tick-driven full runs
\* one plan is started on the fresh instance and run by its tick timer
\* alone: the 100 ms interval has fired before the clock shows the next
\* second
StartRun ==
    /\ ~started
    /\ \E planName \in RunPlanNames, customPlan \in CustomPlans \cup {NoPlan} :
            startExercise(planName, customPlan)

AdvanceRunClock ==
    /\ isActive
    /\ tickValue(now) > 0
    /\ now + RunClockStep <= MaxRunNow
    /\ now' = now + RunClockStep
    /\ UNCHANGED <<session, sessions, lastOp, ret, segments, remAtPause,
                   resumedAt, tickRemaining, started, emitted>>

NextRun ==
    \/ StartRun /\ Alone
    \/ tick /\ Alone
    \/ AdvanceRunClock /\ Alone

SpecRun == Init /\ [][NextRun]_vars

\* ------------------------------------------------- runs with timely ticks
\* one plan is started on the fresh instance; the caller pauses, resumes and
\* stops it at any instant of a quarter-second clock, and the clock moves on
\* when the tick timer of a running session has nothing left to do at this
\* instant
StartPause ==
    /\ ~started
    /\ \E customPlan \in CustomPlans \cup NegativePlans \cup {NoPlan} :
            startExercise("beginner", customPlan)

AdvancePauseClock ==
    /\ started
    /\ (isActive /\ ~isPaused) =>
            (tickValue(now) > 0 /\ phaseTimeRemaining = tickValue(now))
    /\ now + PauseClockStep <= MaxPauseNow
    /\ now' = now + PauseClockStep
    /\ resumedAt' = IF resumedAt # Null /\ now' - resumedAt < 1000
                    THEN resumedAt ELSE Null
    /\ remAtPause' = IF isPaused \/ resumedAt' # Null
                     THEN remAtPause ELSE Undefined
    /\ UNCHANGED <<session, sessions, lastOp, ret, segments, tickRemaining,
                   started, emitted>>

NextPause ==
    \/ StartPause /\ Alone
    \/ tick /\ Alone
    \/ pause /\ Alone
    \/ resume /\ Alone
    \/ stop /\ Alone
    \/ AdvancePauseClock /\ Alone

SpecPause == Init /\ [][NextPause]_vars

\* ------------------------------------------- the page is hidden and shown
\* a handler that calls no method of the session
untouched ==
    UNCHANGED <<now, session, sessions, segments, started, lastOp, ret,
                tickRemaining, resumedAt, remAtPause, emitted>>

\* adjustForBackground(backgroundDuration)
adjustForBackground(backgroundDuration) ==
    IF backgroundDuration > 5000
    THEN pauseThen(<<showMessage>>)
    ELSE untouched

\* the visibilitychange listener of Exercise when document.hidden
exerciseHidden ==
    backgroundTime' = IF isActive /\ ~isPaused THEN now ELSE backgroundTime

\* the visibilitychange listener of Exercise when the page is visible
exerciseVisible ==
    IF backgroundTime > Null
    THEN /\ adjustForBackground(now - backgroundTime)
         /\ backgroundTime' = Null
    ELSE /\ untouched
         /\ UNCHANGED backgroundTime

\* a hide handler that leaves the session running
onAppHiddenIdle ==
    /\ untouched
    /\ UNCHANGED backgroundPaused

\* App.onAppHidden()
onAppHidden ==
    IF isActive /\ ~isPaused
    THEN /\ pause
         /\ backgroundPaused' = TRUE
    ELSE /\ untouched
         /\ UNCHANGED backgroundPaused

\* App.onAppVisible(), run after the listener of Exercise: it shows the
\* dialog and leaves backgroundPaused to the buttons of the dialog
onAppVisible ==
    dialog' = (dialog \/ (backgroundPaused /\ isPaused'))

\* visibilitychange with document.hidden: the listener of Exercise, added
\* by its constructor, then App.onVisibilityChange
Hide ==
    /\ ~hidden
    /\ hidden' = TRUE
    /\ atHide' = [time |-> now, isActive |-> isActive, isPaused |-> isPaused,
                  phase |-> currentPhase, set |-> currentSet,
                  rep |-> currentRep]
    /\ exerciseHidden
    /\ onAppHidden
    /\ UNCHANGED <<dialog, calc>>
    /\ Track
    /\ Stored

\* visibilitychange with the page visible again
Show ==
    /\ hidden
    /\ hidden' = FALSE
    /\ exerciseVisible
    /\ onAppVisible
    /\ UNCHANGED <<backgroundPaused, atHide, calc>>
    /\ Track
    /\ Stored

\* the confirm button of the dialog: hideDialog(), then the onConfirm of
\* App.onAppVisible
DialogConfirm ==
    /\ ~hidden
    /\ dialog
    /\ dialog' = FALSE
    /\ resume
    /\ backgroundPaused' = FALSE
    /\ UNCHANGED <<hidden, backgroundTime, atHide, calc>>
    /\ Track
    /\ Stored

\* the cancel button of the dialog: hideDialog() alone
DialogCancel ==
    /\ ~hidden
    /\ dialog
    /\ dialog' = FALSE
    /\ untouched
    /\ UNCHANGED <<hidden, backgroundTime, backgroundPaused, atHide, calc>>
    /\ Track
    /\ Stored

\* the user starts the beginner plan
StartVis == startExercise("beginner", NoPlan)

AdvanceVisClock ==
    /\ started
    /\ now + VisClockStep <= MaxVisNow
    /\ now' = now + VisClockStep
    /\ resumedAt' = IF resumedAt # Null /\ now' - resumedAt < 1000
                    THEN resumedAt ELSE Null
    /\ remAtPause' = IF isPaused \/ resumedAt' # Null
                     THEN remAtPause ELSE Undefined
    /\ UNCHANGED <<session, sessions, lastOp, ret, segments, tickRemaining,
                   started, emitted>>

\* the user acts on a visible page; the tick timer and the clock run on a
\* hidden page too
NextVis ==
    \/ ~hidden /\ StartVis /\ Alone
    \/ ~hidden /\ pause /\ Alone
    \/ ~hidden /\ resume /\ Alone
    \/ ~hidden /\ stop /\ Alone
    \/ tick /\ Alone
    \/ AdvanceVisClock /\ Alone
    \/ Hide
    \/ Show
    \/ DialogConfirm
    \/ DialogCancel

SpecVis == Init /\ [][NextVis]_vars

\* ------------------------------------------------ the duration of a plan
\* the plans whose duration the plan cards and the custom dialog display:
\* the presets and custom plans of small positive fields
PlanInputs ==
    { plans[n] : n \in DOMAIN plans }
    \cup { MkPlan(c, r, s, n, t) : c \in 1..MaxField, r \in 1..MaxField,
                                    s \in 1..MaxField, n \in 1..MaxField,
                                    t \in 0..MaxField }

\* UI.updateCustomDurationPreview and the plan cards call
\* calculatePlanDuration, before a session or during one; the call is
\* followed until it has been given a plan
Calculate ==
    /\ asked = NoPlan
    /\ \E plan \in PlanInputs \cup {NoPlan} :
            /\ asked' = plan
            /\ minutes' = calculatePlanDuration(plan)
    /\ UNCHANGED <<now, session, sessions, lastOp, ret, segments, remAtPause,
                   resumedAt, tickRemaining, started, emitted, phaseRun,
                   sessionRun, view, today, stats, issued, announced,
                   pausedBy>>

NextCalc ==
    \/ Calculate
    \/ StartVis /\ Alone
    \/ pause /\ Alone

SpecCalc == Init /\ [][NextCalc]_vars

\* ------------------------------------------------ runs under fairness
\* a valid custom plan is started on the fresh instance and stop() is never
\* called. The 100 ms timer fires at every instant at which a tick has
\* something to do, a paused session is resumed at once, and the clock
\* advances for ever. Only differences of times are read, so the clock is
\* kept in a window: past MaxLiveNow every time is written LiveEpoch lower,
\* and a time older than the window is written as its beginning. This is
\* exact for phaseStartTime, which tick() compares with at most 3 s; a
\* startTime that old makes the duration of the record a lower bound.
StartLive ==
    /\ ~started
    /\ \E customPlan \in LivePlans : startExercise("custom", customPlan)

AdvanceLiveClock ==
    LET t == now + LiveClockStep
        back == IF t > MaxLiveNow THEN LiveEpoch ELSE 0
        Shift(ts) == IF ts <= Null THEN ts ELSE Max(ts - back, InitialNow)
    IN  /\ started
        /\ ~(isActive /\ isPaused)
        /\ isActive =>
                (tickValue(now) > 0 /\ phaseTimeRemaining = tickValue(now))
        /\ now' = t - back
        /\ startTime' = Shift(startTime)
        /\ phaseStartTime' = Shift(phaseStartTime)
        /\ pauseStartTime' = Shift(pauseStartTime)
        /\ resumedAt' = IF resumedAt # Null /\ t - resumedAt < 1000
                        THEN Shift(resumedAt) ELSE Null
        /\ remAtPause' = IF resumedAt' # Null THEN remAtPause ELSE Undefined
        /\ UNCHANGED <<isActive, isPaused, currentPhase, currentSet,
                       currentRep, timer, intervals, pausedTime,
                       phaseTimeRemaining, currentPlan, sessions, lastOp,
                       ret, segments, tickRemaining, started, emitted>>

\* a step of the session in the window of the clock
Still == UNCHANGED <<view, calc, phaseRun, sessionRun>> /\ Stored /\ Blamed

\* a tick of the timer on the running session
RunningTick == ~tickIgnored /\ tick /\ Still

NextLive ==
    \/ StartLive /\ Still
    \/ tick /\ Still
    \/ pause /\ Still
    \/ resume /\ Still
    \/ AdvanceLiveClock /\ Still

SpecLive ==
    /\ Init
    /\ [][NextLive]_vars
    /\ SF_vars(RunningTick)
    /\ WF_vars(resume /\ Still)
    /\ SF_vars(AdvanceLiveClock /\ Still)

\* ------------------------------------------------- the session history
\* what is left as it is by a call of Storage
besideStorage ==
    UNCHANGED <<now, session, lastOp, ret, segments, remAtPause, resumedAt,
                tickRemaining, started, emitted, phaseRun, sessionRun, view,
                calc, pausedBy>>

\* the seconds of a custom plan of 30 sets of 30 repetitions of 10 + 10 s
LongSession == 18003

\* the sessionData Exercise.saveSession passes for the beginner plan, as
\* Storage.saveSession stores it today: a completed run of 4 minutes or a
\* run stopped in its second set
DataInputs ==
    { [id |-> generateId, date |-> today, plan |-> "beginner",
       duration |-> 243, contractTime |-> 3, relaxTime |-> 3, sets |-> 3,
       repetitions |-> 10, completed |-> TRUE, completedSets |-> 3,
       completedReps |-> 30],
      [id |-> generateId, date |-> today, plan |-> "beginner",
       duration |-> 100, contractTime |-> 3, relaxTime |-> 3, sets |-> 3,
       repetitions |-> 10, completed |-> FALSE, completedSets |-> 1,
       completedReps |-> 10] }

\* a completed run of the long custom plan
LongInputs ==
    { [id |-> generateId, date |-> today, plan |-> "custom",
       duration |-> LongSession, contractTime |-> 10, relaxTime |-> 10,
       sets |-> 30, repetitions |-> 30, completed |-> TRUE,
       completedSets |-> 30, completedReps |-> 900] }

\* Storage.saveSession(sessionData)
saveSessionOf(inputs) ==
    /\ issued < MaxSessions
    /\ \E sessionData \in inputs :
            /\ sessions' = Append(sessions, sessionData)
            /\ stats' = updateStats(stats, sessionData, today)
            /\ \E st \in {countedStats(stats, sessionData, today)} :
                    announced' = IF sessionData.completed
                                 THEN dispatchUnlocked(st) ELSE announced
    /\ issued' = issued + 1
    /\ UNCHANGED today
    /\ besideStorage

\* a run of the beginner plan is saved
StoreSession == saveSessionOf(DataInputs)

\* a run is saved that was stopped or was a long one
StoreLong == saveSessionOf(LongInputs \cup { d \in DataInputs : ~d.completed })

\* Storage.deleteSession(sessionId), for the id of a record or another
DeleteSession ==
    /\ \E sessionId \in 1..(issued + 1) :
            sessions' = deleteSession(sessions, sessionId)
    /\ \E st \in {recountedStats(sessions', today)} :
            /\ stats' = checkAchievements(st)
            /\ announced' = dispatchUnlocked(st)
    /\ UNCHANGED <<today, issued>>
    /\ besideStorage

\* Storage.recalculateStats()
Recalculate ==
    /\ \E st \in {recountedStats(sessions, today)} :
            /\ stats' = checkAchievements(st)
            /\ announced' = dispatchUnlocked(st)
    /\ UNCHANGED <<sessions, today, issued>>
    /\ besideStorage

\* midnight
NextDay ==
    /\ today < MaxDay
    /\ today' = today + 1
    /\ UNCHANGED <<sessions, stats, issued, announced>>
    /\ besideStorage

NextStore ==
    \/ StoreSession
    \/ Recalculate
    \/ NextDay

SpecStore == Init /\ [][NextStore]_vars

\* the history with its records deleted, one at a time
NextDelete ==
    \/ StoreSession
    \/ DeleteSession
    \/ Recalculate
    \/ NextDay

SpecDelete == Init /\ [][NextDelete]_vars

\* the history of a day: long sessions are saved and deleted
NextUnlock ==
    \/ StoreLong
    \/ DeleteSession
    \/ Recalculate

SpecUnlock == Init /\ [][NextUnlock]_vars

\* ------------------------------------------------------------------ claims
\* a tick of a running session whose computed remaining time is 0
TickAtZero == tick /\ isActive /\ ~isPaused /\ tickRemaining' = 0

\* C1: startExercise called while a session is active, paused or not,
\* returns false and changes no field of the session (plan, phase, set, rep,
\* startTime, phaseStartTime, pausedTime, phaseTimeRemaining, isPaused, the
\* tick timer).
C1_StartWhileActive ==
    [][(isActive /\ Start) => (ret' = "false" /\ UNCHANGED session)]_vars

\* a start was refused on a paused session that had left the prepare phase
C1_Witness ==
    /\ isActive
    /\ isPaused
    /\ currentPhase = "relax"
    /\ lastOp = "start"
    /\ ret = "false"

\* C2: a successful startExercise from an idle state (fresh, stopped or
\* completed) leaves isActive, not paused, phase prepare, set 1, rep 1,
\* pausedTime 0, phaseTimeRemaining 3 = the prepare time under the plan,
\* startTime = phaseStartTime = now and one running tick timer.
C2_StartResets ==
    [][(~isActive /\ Start /\ ret' = "true") =>
            /\ isActive'
            /\ ~isPaused'
            /\ currentPhase' = "prepare"
            /\ currentSet' = 1
            /\ currentRep' = 1
            /\ pausedTime' = 0
            /\ phaseTimeRemaining' = 3
            /\ PhaseTime(currentPhase', currentPlan') = 3
            /\ startTime' = now
            /\ phaseStartTime' = now
            /\ timer'
            /\ intervals' = 1]_vars

\* a second run was started after a run that completed
C2_Witness ==
    /\ lastOp = "start"
    /\ ret = "true"
    /\ isActive
    /\ Len(sessions) = 1
    /\ sessions[1].completed
    /\ currentSet = 1

\* C3: when the remaining time reaches 0, prepare is followed by contract,
\* contract by relax and rest by contract, and the transition changes
\* neither currentSet nor currentRep.
C3_FixedSuccessors ==
    [][(TickAtZero /\ currentPhase \in {"prepare", "contract", "rest"}) =>
            /\ currentPhase' = CASE currentPhase = "prepare" -> "contract"
                                 [] currentPhase = "contract" -> "relax"
                                 [] currentPhase = "rest" -> "contract"
            /\ currentSet' = currentSet
            /\ currentRep' = currentRep]_vars

\* a rest phase has ended in the contract phase of the second set
C3_Witness ==
    /\ lastOp = "tick"
    /\ tickRemaining = 0
    /\ currentPhase = "contract"
    /\ segments["rest"] = 1
    /\ segments["contract"] = 2
    /\ currentSet = 2

\* C4: when relax ends, the next phase is contract with the rep counted if
\* currentRep+1 <= repsPerSet; else rest with the set counted and rep 1 if
\* currentSet+1 <= sets; else the session completes.  Rest and complete are
\* entered from relax only.
C4_AfterRelax ==
    [][/\ (TickAtZero /\ currentPhase = "relax") =>
            IF currentRep + 1 <= currentPlan.repsPerSet
            THEN /\ currentPhase' = "contract"
                 /\ currentRep' = currentRep + 1
                 /\ currentSet' = currentSet
            ELSE IF currentSet + 1 <= currentPlan.sets
            THEN /\ currentPhase' = "rest"
                 /\ currentSet' = currentSet + 1
                 /\ currentRep' = 1
            ELSE /\ currentPhase' = "complete"
                 /\ ~isActive'
       /\ (currentPhase' \in {"rest", "complete"}
            /\ currentPhase' # currentPhase) =>
                (currentPhase = "relax" /\ TickAtZero)]_vars

\* the relax phase of the last rep of set 1 has ended in a rest
C4_Witness ==
    /\ lastOp = "tick"
    /\ tickRemaining = 0
    /\ currentPhase = "rest"
    /\ currentSet = 2
    /\ currentRep = 1
    /\ isActive


\* the segments a run has entered
SegmentTotal ==
    segments["prepare"] + segments["contract"] + segments["relax"]
    + segments["rest"] + segments["complete"]

\* C5: a run of a valid plan driven by ticks from start to completion has
\* entered 1 prepare segment, sets*repsPerSet contract segments,
\* sets*repsPerSet relax segments and sets-1 rest segments when it reaches
\* complete, 1 + 2*sets*repsPerSet + (sets-1) in all; 63 for beginner.
C5_SegmentCount ==
    (currentPhase = "complete" /\ ValidPlan(currentPlan)) =>
        LET S == currentPlan.sets
            R == currentPlan.repsPerSet
        IN  /\ segments["prepare"] = 1
            /\ segments["contract"] = S * R
            /\ segments["relax"] = S * R
            /\ segments["rest"] = S - 1
            /\ segments["complete"] = 0
            /\ SegmentTotal = 1 + 2 * S * R + (S - 1)
            /\ currentPlan = plans.beginner => SegmentTotal = 63

\* the beginner plan has run to completion
C5_Witness ==
    /\ currentPhase = "complete"
    /\ currentPlan = plans.beginner
    /\ lastOp = "tick"
    /\ SegmentTotal = 63

\* C6: when a run reaches complete, currentSet equals the set count of the
\* plan (stated for valid plans).
C6_SetAtCompletion ==
    (currentPhase = "complete" /\ ValidPlan(currentPlan)) =>
        currentSet = currentPlan.sets

\* C7: the completion path sets phase complete and isActive false, stops
\* the tick timer and appends one record with completed = true,
\* completedSets = sets and completedReps = sets * repsPerSet.
C7_CompletionPath ==
    [][(currentPhase' = "complete" /\ currentPhase # "complete") =>
            /\ ~isActive'
            /\ ~timer'
            /\ intervals' = 0
            /\ Len(sessions') = Len(sessions) + 1
            /\ SubSeq(sessions', 1, Len(sessions)) = sessions
            /\ sessions'[Len(sessions')].completed
            /\ sessions'[Len(sessions')].plan = currentPlan.name
            /\ sessions'[Len(sessions')].completedSets = currentPlan.sets
            /\ sessions'[Len(sessions')].completedReps =
                    currentPlan.sets * currentPlan.repsPerSet]_vars

\* a run of the beginner plan has just completed and left its record
C7_Witness ==
    /\ currentPhase = "complete"
    /\ lastOp = "tick"
    /\ tickRemaining = 0
    /\ ~isActive
    /\ Len(sessions) = 1
    /\ sessions[1].plan = "beginner"
    /\ sessions[1].completed
    /\ sessions[1].completedSets = 3
    /\ sessions[1].completedReps = 30

\* C8: in every reachable state, phase = complete implies isActive = false.
C8_CompleteIsInactive ==
    currentPhase = "complete" => ~isActive

\* a completed session on which resume() was then tried
C8_Witness ==
    /\ currentPhase = "complete"
    /\ lastOp = "resume"
    /\ ret = "false"

\* C9: in every reachable state with a plan set,
\* 1 <= currentSet <= plan.sets + 1.
C9_SetRange ==
    currentPlan # NoPlan =>
        (1 <= currentSet /\ currentSet <= currentPlan.sets + 1)

\* C10: pause() and resume() leave phaseTimeRemaining as it is, so that
\* after resume() it is what it was when pause() was called, and the first
\* tick after resume(), less than a second later, computes that same value,
\* however long the session was paused.
C10_PauseResumeKeepsRemaining ==
    [][/\ (pause \/ resume) => phaseTimeRemaining' = phaseTimeRemaining
       /\ (resume /\ ret' = "true") => phaseTimeRemaining' = remAtPause
       /\ (tick /\ lastOp = "resume" /\ ret = "true" /\ resumedAt # Null) =>
            tickRemaining' = remAtPause]_vars

\* a session paused in the middle of a phase for 2 seconds or more, resumed,
\* and ticked half a second after the resume
C10_Witness ==
    /\ lastOp = "tick"
    /\ resumedAt # Null
    /\ now > resumedAt
    /\ pausedTime >= 2000
    /\ tickRemaining = remAtPause
    /\ tickRemaining > 0
    /\ tickRemaining < getPhaseTime

\* C11: with ticks that fire on time, the unpaused time a session has spent
\* in a phase of D seconds when the transition out of it fires is D seconds,
\* to within one tick period, whatever pause/resume cycles fell inside it.
C11_UnpausedPhaseTime ==
    [][TickAtZero =>
            /\ phaseRun >= getPhaseTime * 1000
            /\ phaseRun <= getPhaseTime * 1000 + PauseClockStep]_vars

\* C12: the duration getTotalDuration returns for an active session, running
\* or paused, and the duration of a record written by stop or completion,
\* is the time since the start less every paused interval.
C12_DurationExcludesPauses ==
    [][/\ isActive => getTotalDuration(now) = sessionRun
       /\ Len(sessions') > Len(sessions) =>
            sessions'[Len(sessions')].duration = sessionRun \div 1000]_vars

\* C13: a tick of a session that is paused or inactive changes no field of
\* the session (phase, currentSet, currentRep, phaseTimeRemaining,
\* phaseStartTime among them), however far the clock has advanced, saves
\* nothing and dispatches no event.
C13_IgnoredTick ==
    [][(tick /\ (~isActive \/ isPaused)) =>
            /\ UNCHANGED <<session, sessions>>
            /\ emitted' = << >>]_vars

\* a session paused for 2 seconds or more was ticked at a clock for which a
\* running session would have computed a smaller remaining time
C13_Witness ==
    /\ isActive
    /\ isPaused
    /\ lastOp = "tick"
    /\ now - pauseStartTime >= 2000
    /\ tickValue(now) < phaseTimeRemaining

\* C14: pause() on a session that is inactive or already paused, resume()
\* on one that is inactive or not paused and stop() on an inactive one
\* return false, change no field of the session, save no record and
\* dispatch no event.
C14_RefusedCalls ==
    [][(\/ pause /\ (~isActive \/ isPaused)
        \/ resume /\ (~isActive \/ ~isPaused)
        \/ stop /\ ~isActive) =>
            /\ ret' = "false"
            /\ UNCHANGED <<session, sessions>>
            /\ emitted' = << >>]_vars

\* pause() was refused on a session paused half a second or more before
C14_Witness ==
    /\ isActive
    /\ isPaused
    /\ lastOp = "pause"
    /\ ret = "false"
    /\ now > pauseStartTime

\* contractTime, relaxTime, sets and repsPerSet of a plan are positive
PositiveFields(p) ==
    /\ p.contractTime > 0
    /\ p.relaxTime > 0
    /\ p.sets > 0
    /\ p.repsPerSet > 0

\* C15: startExercise on an idle session with a custom plan of which
\* contractTime, relaxTime, sets or repsPerSet is not positive returns false
\* and leaves the session inactive.
C15_InvalidCustomPlan ==
    [][\A customPlan \in CustomPlans :
            (/\ ~isActive
             /\ ~PositiveFields(customPlan)
             /\ \E planName \in PlanNames :
                    startExercise(planName, customPlan)) =>
                (ret' = "false" /\ ~isActive')]_vars

repsDone ==
    segments["relax"] - (IF currentPhase = "relax" THEN 1 ELSE 0)

\* C17: stop() on an active session appends one record if currentSet > 1 or
\* currentRep > 1, which is when one repetition or more has been finished,
\* and leaves the list as it is otherwise: in prepare and in the contract
\* and relax of the first rep of the first set.
C17_StopPersists ==
    [][(isActive /\ stop) =>
            /\ IF currentSet > 1 \/ currentRep > 1
               THEN /\ Len(sessions') = Len(sessions) + 1
                    /\ SubSeq(sessions', 1, Len(sessions)) = sessions
               ELSE sessions' = sessions
            /\ (currentSet > 1 \/ currentRep > 1) <=> repsDone >= 1
            /\ (\/ currentPhase = "prepare"
                \/ /\ currentSet = 1
                   /\ currentRep = 1
                   /\ currentPhase \in {"contract", "relax"}) =>
                    sessions' = sessions]_vars

\* a session stopped after its first repetition left the only record
C17_Witness ==
    /\ lastOp = "stop"
    /\ ret = "true"
    /\ Len(sessions) = 1
    /\ ~sessions[1].completed
    /\ sessions[1].completedReps >= 1

\* C18: the record stop() appends has completed = false, completedSets =
\* currentSet - 1, the sets finished, and completedReps = (currentSet - 1)
\* * repsPerSet + (currentRep - 1), the contract+relax cycles finished since
\* the start.
C18_StopRecord ==
    [][(isActive /\ stop /\ Len(sessions') > Len(sessions)) =>
            LET r == sessions'[Len(sessions')]
            IN  /\ ~r.completed
                /\ r.completedSets = currentSet - 1
                /\ r.completedSets = segments["rest"]
                /\ r.completedReps =
                        (currentSet - 1) * currentPlan.repsPerSet
                        + (currentRep - 1)
                /\ r.completedReps = repsDone]_vars

\* the fields of a freshly constructed session
FreshSession ==
    <<FALSE, FALSE, "prepare", 1, 1, FALSE, 0, Null, 0, Undefined, Undefined,
      Undefined, NoPlan>>

\* C19 as stated: a successful stop() returns true and leaves the fields of
\* the session equal to those of a freshly constructed session.
C19_StopEqualsFresh ==
    [][(isActive /\ stop) => (ret' = "true" /\ session' = FreshSession)]_vars

\* C19: a successful stop(), from any active state, returns true and leaves
\* isActive and isPaused false, phase prepare, set 1, rep 1, startTime null,
\* pausedTime 0 and no tick timer, as in a fresh session; it sets
\* phaseTimeRemaining to 0 and keeps currentPlan, phaseStartTime and
\* pauseStartTime.
C19_StopResets ==
    [][(isActive /\ stop) =>
            /\ ret' = "true"
            /\ ~isActive'
            /\ ~isPaused'
            /\ currentPhase' = "prepare"
            /\ currentSet' = 1
            /\ currentRep' = 1
            /\ startTime' = Null
            /\ pausedTime' = 0
            /\ ~timer'
            /\ intervals' = 0
            /\ phaseTimeRemaining' = 0
            /\ UNCHANGED <<currentPlan, phaseStartTime, pauseStartTime>>]_vars

\* a session was stopped while paused in its second repetition or later
C19_Witness ==
    /\ lastOp = "stop"
    /\ ret = "true"
    /\ pauseStartTime > Null
    /\ currentPlan # NoPlan
    /\ Len(sessions) >= 1
    /\ ~sessions[Len(sessions)].completed
    /\ currentSet = 1
    /\ phaseTimeRemaining = 0

\* C20: when the page is shown again after it was hidden for 5 seconds or
\* less, or was hidden on a session that was inactive or already paused,
\* isActive and isPaused are what they were when the page was hidden.
C20_ShortHideNoPause ==
    [][(/\ Show
        /\ \/ now - atHide.time <= 5000
           \/ ~atHide.isActive
           \/ atHide.isPaused) =>
            /\ isActive' = atHide.isActive
            /\ isPaused' = atHide.isPaused]_vars

\* the page is shown again more than 5 seconds after it was hidden on a
\* session that was active and not paused
LongHideEnds ==
    /\ Show
    /\ atHide.isActive
    /\ ~atHide.isPaused
    /\ now - atHide.time > 5000

\* C21: when the page was hidden on an active, unpaused session and is
\* shown again more than 5 seconds later with the session still active, the
\* session is paused and has no tick timer once the visibility handlers
\* have run.
C21_LongHidePauses ==
    [][(LongHideEnds /\ isActive') =>
            /\ isPaused'
            /\ ~timer'
            /\ intervals' = 0]_vars

\* the page is visible again after 7.5 seconds or more, the session is
\* paused and the handler of the session has dispatched its message
C21_Witness ==
    /\ ~hidden
    /\ atHide.isActive
    /\ ~atHide.isPaused
    /\ now - atHide.time > 5000
    /\ lastOp = "pause"
    /\ emitted = <<showMessage>>
    /\ isActive
    /\ isPaused
    /\ ~timer

\* C26: when the page was hidden for more than 5 seconds on an active,
\* unpaused session, phase, currentSet and currentRep after the visibility
\* handlers have run are those the session had when the page was hidden,
\* whatever ticks fired while it was hidden.
C26_NoFastForward ==
    [][LongHideEnds =>
            /\ currentPhase' = atHide.phase
            /\ currentSet' = atHide.set
            /\ currentRep' = atHide.rep]_vars

\* the page is visible again after a hidden interval in which a tick was
\* called and in which a running session would have left its phase
C26_Witness ==
    /\ ~hidden
    /\ atHide.isActive
    /\ ~atHide.isPaused
    /\ now - atHide.time > 5000
    /\ lastOp = "pause"
    /\ ret = "false"
    /\ isPaused
    /\ now - phaseStartTime >= getPhaseTime * 1000
    /\ currentPhase = atHide.phase
    /\ currentSet = atHide.set
    /\ currentRep = atHide.rep

\* the seconds of a plan: 3 of prepare, the repetitions and the rests
\* between the sets
PlanSeconds(p) ==
    3 + (p.contractTime + p.relaxTime) * p.repsPerSet * p.sets
    + p.restTime * (p.sets - 1)

\* C22: for a plan of positive fields calculatePlanDuration returns the
\* integer nearest to PlanSeconds / 60, a half rounded up; it returns 4 for
\* the beginner plan and 0 for no plan, the same for the same plan, and the
\* call changes no field of the session and no record.
C22_PlanDuration ==
    [][Calculate =>
            /\ UNCHANGED <<session, sessions, view>>
            /\ minutes' = calculatePlanDuration(asked')
            /\ asked' = NoPlan => minutes' = 0
            /\ asked' = plans.beginner => minutes' = 4
            /\ (asked' # NoPlan /\ PositiveFields(asked')) =>
                    /\ 60 * minutes' - 30 <= PlanSeconds(asked')
                    /\ PlanSeconds(asked') < 60 * minutes' + 30]_vars

\* during a session the duration of a plan of 30 seconds was computed as 1
\* minute
C22_Witness ==
    /\ isActive
    /\ asked # NoPlan
    /\ PlanSeconds(asked) = 30
    /\ minutes = 1

\* C23: in every state with a valid plan getProgress is a fraction of
\* [0, 1] equal to (completedReps + f) / (sets * repsPerSet), completedReps
\* = (currentSet - 1) * repsPerSet + (currentRep - 1), f = (D -
\* phaseTimeRemaining) / D in contract and relax, of duration D, and 0 in
\* every other phase; it is 1 when the run is complete.
C23_Progress ==
    ValidPlan(currentPlan) =>
        LET g == getProgress
            D == getPhaseTime
            inRep == currentPhase \in {"contract", "relax"}
            done == (currentSet - 1) * currentPlan.repsPerSet
                    + (currentRep - 1)
            total == currentPlan.sets * currentPlan.repsPerSet
            \* (done + f) / total as a fraction
            fnum == IF inRep THEN done * D + (D - phaseTimeRemaining)
                    ELSE done
            fden == IF inRep THEN total * D ELSE total
        IN  /\ g.den > 0
            /\ 0 <= g.num
            /\ g.num <= g.den
            /\ g.num * fden = fnum * g.den
            /\ currentPhase = "complete" => g.num = g.den

\* two of the three seconds of the first contract of the beginner plan
\* have passed: 2/3 of a repetition of 30
C23_Witness ==
    /\ currentPlan = plans.beginner
    /\ isActive
    /\ currentPhase = "contract"
    /\ phaseTimeRemaining = 1
    /\ getProgress = [num |-> 2, den |-> 90]

\* the days of a history that have a completed session
DaysDone(ss) == { ss[i].date : i \in { j \in 1..Len(ss) : ss[j].completed } }

\* the number of consecutive days of D that end at day d
StreakEndingAt(D, d) ==
    CHOOSE k \in 0..d :
        /\ \A j \in 0..(k - 1) : (d - j) \in D
        /\ (d - k) \notin D

\* the longest run of consecutive days in D
LongestStreak(D) ==
    IF D = {} THEN 0
    ELSE CHOOSE k \in 1..Cardinality(D) :
            /\ \E d \in D : StreakEndingAt(D, d) = k
            /\ \A d \in D : StreakEndingAt(D, d) <= k

\* C24: after Storage.saveSession has stored a completed session on day d,
\* currentStreak is the number of consecutive days ending at d that have a
\* completed session, and maxStreak the longest such run of the history.
C24_StreakAfterSave ==
    [][(StoreSession /\ sessions'[Len(sessions')].completed) =>
            /\ stats'.currentStreak =
                    StreakEndingAt(DaysDone(sessions'), today)
            /\ stats'.maxStreak = LongestStreak(DaysDone(sessions'))]_vars

RECURSIVE Incremental(_)
\* the stats that saveSession calls alone leave for a history, each record
\* saved on its date
Incremental(ss) ==
    IF ss = << >> THEN defaultStats
    ELSE updateStats(Incremental(SubSeq(ss, 1, Len(ss) - 1)), ss[Len(ss)],
                     ss[Len(ss)].date)

\* C25: when the stats were maintained by saveSession calls alone,
\* recalculateStats on the day of the last save leaves totalSessions,
\* totalDuration, currentStreak, maxStreak, firstSessionDate and
\* lastSessionDate as they are.
C25_RecalculateAgrees ==
    [][(/\ Recalculate
        /\ stats = Incremental(sessions)
        /\ sessions # << >> => sessions[Len(sessions)].date = today) =>
            stats' = stats]_vars

\* C27: a tick of a running session sets phaseTimeRemaining to
\* max(0, phaseDuration - floor((now - phaseStartTime) / 1000)) when it
\* stays in the phase, and in every active state phaseTimeRemaining lies
\* between 0 and the duration of the current phase.
C27_RemainingInRange ==
    [][/\ (tick /\ ~tickIgnored) =>
            /\ tickRemaining' =
                    Max(0, getPhaseTime - ((now - phaseStartTime) \div 1000))
            /\ tickRemaining' > 0 => phaseTimeRemaining' = tickRemaining'
       /\ isActive' =>
            /\ 0 <= phaseTimeRemaining'
            /\ phaseTimeRemaining' <= PhaseTime(currentPhase', currentPlan')
      ]_vars

\* a session that was started and ran to its end
Completed == started /\ currentPhase = "complete" /\ ~isActive

\* C28: with a valid plan, a clock that keeps advancing, ticks that keep
\* firing while the session runs, no stop() and a resume() after every
\* pause(), a started session reaches phase complete with isActive false,
\* and stays there as long as no session is started.
C28_EventuallyComplete ==
    /\ started ~> Completed
    /\ [][Completed => Completed']_vars

\* the exerciseStateChanged events of a sequence of events
StateChanges(ev) ==
    LET IsStateChange(e) == e.event = "exerciseStateChanged"
    IN  SelectSeq(ev, IsStateChange)

\* the detail of event e is the state the step leaves
CarriesStateAfter(e) ==
    /\ e.isActive = isActive'
    /\ e.isPaused = isPaused'
    /\ e.phase = currentPhase'
    /\ e.currentSet = currentSet'
    /\ e.currentRep = currentRep'
    /\ e.totalSets = currentPlan'.sets
    /\ e.totalReps = currentPlan'.repsPerSet
    /\ e.timeRemaining = phaseTimeRemaining'
    /\ e.totalPhaseTime = PhaseTime(currentPhase', currentPlan')

\* C29: a start, pause, resume or stop that returns true dispatches exactly
\* one exerciseStateChanged event, whose detail is the state after the
\* call, and one that returns false dispatches nothing; a tick of a running
\* session dispatches timerUpdate first, with the time it computed, then
\* exactly one exerciseStateChanged with the state after the tick if it
\* changed the phase (completion included), and none otherwise.
C29_Notifications ==
    [][LET changes == StateChanges(emitted')
       IN  /\ (/\ ret' = "true"
               /\ lastOp' \in {"start", "pause", "resume", "stop"}
               /\ Start \/ pause \/ resume \/ stop) =>
                /\ Len(changes) = 1
                /\ CarriesStateAfter(changes[1])
           /\ (/\ ret' = "false"
               /\ lastOp' \in {"start", "pause", "resume", "stop"}
               /\ Start \/ pause \/ resume \/ stop) =>
                emitted' = << >>
           /\ (~tickIgnored /\ lastOp' = "tick" /\ tick) =>
                /\ emitted'[1].event = "timerUpdate"
                /\ emitted'[1].timeRemaining = tickRemaining'
                /\ \A i \in 2..Len(emitted') :
                        emitted'[i].event # "timerUpdate"
                /\ Len(changes) = IF currentPhase' # currentPhase
                                  THEN 1 ELSE 0
                /\ currentPhase' # currentPhase =>
                        CarriesStateAfter(changes[1])
      ]_vars

\* the tick that completed a session has dispatched timerUpdate, then
\* exerciseStateChanged with phase complete, then the message
C29_Witness ==
    /\ lastOp = "tick"
    /\ currentPhase = "complete"
    /\ Len(emitted) = 3
    /\ emitted[1].event = "timerUpdate"
    /\ emitted[2].event = "exerciseStateChanged"
    /\ emitted[2].phase = "complete"
    /\ ~emitted[2].isActive
    /\ emitted[3] = showMessage

\* the phase changes of the transition table
Follows ==
    { <<"prepare", "contract">>, <<"contract", "relax">>,
      <<"relax", "contract">>, <<"relax", "rest">>, <<"relax", "complete">>,
      <<"rest", "contract">> }

\* the tick makes no more than one change of phase and counts no more than
\* one repetition
OnePhase ==
    /\ \/ currentPhase' = currentPhase
       \/ <<currentPhase, currentPhase'>> \in Follows
    /\ \/ currentSet' = currentSet /\ currentRep' = currentRep
          /\ <<currentPhase, currentPhase'>> # <<"relax", "rest">>
          /\ <<currentPhase, currentPhase'>> # <<"relax", "complete">>
       \/ currentSet' = currentSet /\ currentRep' = currentRep + 1
          /\ <<currentPhase, currentPhase'>> = <<"relax", "contract">>
       \/ currentSet' = currentSet + 1 /\ currentRep' = 1
          /\ currentPhase = "relax"
          /\ currentPhase' \in {"rest", "complete"}

\* C30 as stated: a tick of a running session changes the phase at most
\* once, however late it comes, and every phase it enters starts with
\* phaseStartTime = now and its full duration as phaseTimeRemaining.
C30_EnteredPhaseStartsNow ==
    [][(~tickIgnored /\ lastOp' = "tick" /\ tick) =>
            /\ OnePhase
            /\ currentPhase' # currentPhase =>
                    /\ phaseStartTime' = now
                    /\ phaseTimeRemaining' =
                            PhaseTime(currentPhase', currentPlan)]_vars

\* C30, amended: a tick of a running session changes the phase at most
\* once, however late it comes; a phase it enters other than complete
\* starts with phaseStartTime = now and its full duration as
\* phaseTimeRemaining, and the tick that completes the session leaves
\* phaseStartTime as it was, with phaseTimeRemaining = 0.
C30_OnePhasePerTick ==
    [][(~tickIgnored /\ lastOp' = "tick" /\ tick) =>
            /\ OnePhase
            /\ (currentPhase' # currentPhase /\ currentPhase' # "complete") =>
                    /\ phaseStartTime' = now
                    /\ phaseTimeRemaining' =
                            PhaseTime(currentPhase', currentPlan)
            /\ (currentPhase' # currentPhase /\ currentPhase' = "complete") =>
                    /\ phaseStartTime' = phaseStartTime
                    /\ phaseTimeRemaining' = 0]_vars

\* the first tick of a run came 5 seconds after the start, when prepare, a
\* contraction and a relaxation of 1 s each were over, and it has entered
\* the first contraction at this instant with its full second
C30_Witness ==
    /\ lastOp = "tick"
    /\ isActive
    /\ ~isPaused
    /\ pausedTime = 0
    /\ now - startTime >= 5000
    /\ currentPlan.contractTime = 1
    /\ currentPlan.relaxTime = 1
    /\ currentPhase = "contract"
    /\ segments["contract"] = 1
    /\ segments["relax"] = 0
    /\ phaseStartTime = now
    /\ phaseTimeRemaining = 1

\* C31: a step saves at most one record, and only as the step that ends a
\* session: the tick that completes it, which appends exactly one record
\* with completed = true, or a successful stop(), which appends at most one
\* with completed = false. On an inactive session (after completion or
\* stop) tick, pause, resume and stop save nothing, so each started session
\* has at most one record.
C31_OneRecordPerSession ==
    [][/\ sessions' # sessions =>
            /\ isActive /\ ~isActive'
            /\ Len(sessions') = Len(sessions) + 1
            /\ SubSeq(sessions', 1, Len(sessions)) = sessions
            /\ sessions'[Len(sessions')].completed =
                    (currentPhase' = "complete")
            /\ lastOp' = IF currentPhase' = "complete" THEN "tick" ELSE "stop"
       /\ (isActive /\ currentPhase' = "complete") => sessions' # sessions
      ]_vars

\* a completed session has its one record, and stop() was then refused
C31_Witness ==
    /\ currentPhase = "complete"
    /\ Len(sessions) = 1
    /\ sessions[1].completed
    /\ lastOp = "stop"
    /\ ret = "false"

\* C32: in every reachable state isPaused implies isActive.
C32_PausedIsActive == isPaused => isActive

\* a session was stopped while it was paused: it is neither active nor
\* paused
C32_Witness ==
    /\ lastOp = "stop"
    /\ ret = "true"
    /\ pauseStartTime > Null
    /\ ~isPaused
    /\ ~isActive

\* C40: the interval timer is armed exactly when the session is active and
\* not paused, and the running intervals are the one this.timer holds.
C40_OneTimer ==
    /\ timer = (isActive /\ ~isPaused)
    /\ intervals = IF timer THEN 1 ELSE 0

\* a resumed session runs on one interval
C40_Witness ==
    /\ lastOp = "resume"
    /\ ret = "true"
    /\ isActive
    /\ timer
    /\ intervals = 1

\* C33: in every state with a plan set the repetition counter lies in
\* 1..repsPerSet, and currentSet is one past the set count of the plan only
\* in phase complete.
C33_RepRange ==
    currentPlan # NoPlan =>
        /\ 1 <= currentRep
        /\ currentRep <= currentPlan.repsPerSet
        /\ currentSet = currentPlan.sets + 1 => currentPhase = "complete"

\* the seconds of the phases a run has entered, each at its full duration
WalkedSeconds ==
    segments["prepare"] * PhaseTime("prepare", currentPlan)
    + segments["contract"] * PhaseTime("contract", currentPlan)
    + segments["relax"] * PhaseTime("relax", currentPlan)
    + segments["rest"] * PhaseTime("rest", currentPlan)

\* C34: when a run of a valid plan driven by its ticks reaches complete, the
\* durations of the phases it walked sum to
\* 3 + (contractTime + relaxTime) * repsPerSet * sets + restTime * (sets - 1)
\* seconds, and calculatePlanDuration is that sum rounded to minutes; plans
\* with restTime 0 and with one set included.
C34_WalkedDuration ==
    (currentPhase = "complete" /\ ValidPlan(currentPlan)) =>
        /\ WalkedSeconds = PlanSeconds(currentPlan)
        /\ calculatePlanDuration(currentPlan) = MathRound(WalkedSeconds, 60)

\* a run of two sets without rest has completed
C34_Witness ==
    /\ currentPhase = "complete"
    /\ lastOp = "tick"
    /\ currentPlan.sets = 2
    /\ currentPlan.restTime = 0
    /\ segments["rest"] = 1
    /\ WalkedSeconds = 7

\* a / b <= c / d for fractions of positive denominators
FractionLeq(x, y) == x.num * y.den <= y.num * x.den

\* C35: while a run of a valid plan goes on, from its start to its
\* completion, getProgress() after a step is never less than before it,
\* whether the step is a tick, a phase transition, a pause or a resume.
C35_ProgressNeverDecreases ==
    [][(/\ isActive
        /\ ValidPlan(currentPlan)
        /\ isActive' \/ currentPhase' = "complete")
            => FractionLeq(getProgress, getProgress')]_vars

\* every id of the sequence a is in the sequence b
IdsKept(a, b) == \A k \in DOMAIN a : \E j \in DOMAIN b : b[j] = a[k]

\* C36: over saveSession, deleteSession and recalculateStats in any order
\* the list of unlocked achievements never loses an id, and no achievement
\* id is named by more than one achievementUnlocked notification.
C36_AchievementsKept ==
    [][/\ IdsKept(stats.achievements, stats'.achievements)
       /\ \A i \in DOMAIN AchievementIds : announced'[i] <= 1]_vars

\* ten hours were reached, fell below with a deletion and were reached again
\* with another save: both achievements were announced once
C36_Witness ==
    /\ issued = 3
    /\ Len(sessions) = 2
    /\ stats.totalDuration >= 36000
    /\ stats.achievements = <<"first_session", "total_hours_10">>
    /\ announced[1] = 1
    /\ announced[6] = 1

\* C37: after any sequence of saveSession, deleteSession and
\* recalculateStats the stats satisfy maxStreak >= currentStreak >= 0.
C37_StreakOrder ==
    /\ stats.maxStreak >= stats.currentStreak
    /\ stats.currentStreak >= 0

\* a record was deleted from a history of several days and the streak that
\* is left is shorter than the longest one
C37_Witness ==
    /\ Len(sessions) < issued
    /\ stats.currentStreak >= 1
    /\ stats.maxStreak > stats.currentStreak

RECURSIVE Without(_, _)
\* the records of ss whose id is not sessionId, in their order
Without(ss, sessionId) ==
    IF ss = << >> THEN << >>
    ELSE (IF Head(ss).id = sessionId THEN << >> ELSE <<Head(ss)>>)
         \o Without(Tail(ss), sessionId)

RECURSIVE CompletedCount(_)
CompletedCount(ss) ==
    IF ss = << >> THEN 0
    ELSE (IF Head(ss).completed THEN 1 ELSE 0) + CompletedCount(Tail(ss))

RECURSIVE CompletedSeconds(_)
CompletedSeconds(ss) ==
    IF ss = << >> THEN 0
    ELSE (IF Head(ss).completed THEN Head(ss).duration ELSE 0)
         + CompletedSeconds(Tail(ss))

\* C38: deleteSession(id) removes the records whose id is the argument and
\* no other, the rest keep their content and order; after it totalSessions
\* is the number of completed records left and totalDuration the sum of
\* their durations.  Saving a record that is not completed changes neither
\* total.
C38_DeleteExact ==
    [][/\ DeleteSession =>
            /\ \E sessionId \in 1..(issued + 1) :
                    /\ sessions' = Without(sessions, sessionId)
                    /\ Len(sessions') >= Len(sessions) - 1
            /\ stats'.totalSessions = CompletedCount(sessions')
            /\ stats'.totalDuration = CompletedSeconds(sessions')
       /\ (/\ Len(sessions') = Len(sessions) + 1
           /\ ~sessions'[Len(sessions')].completed) =>
                /\ stats'.totalSessions = stats.totalSessions
                /\ stats'.totalDuration = stats.totalDuration]_vars

\* the second of three records was deleted; a completed and a stopped run
\* are left
C38_Witness ==
    /\ Len(sessions) = 2
    /\ sessions[1].id = 1
    /\ sessions[2].id = 3
    /\ sessions[1].completed
    /\ ~sessions[2].completed
    /\ stats.totalSessions = 1
    /\ stats.totalDuration = 243

\* C39: the 'continue training' dialog opens on return only when the pause
\* in effect was made by App.onAppHidden; a pause by the user never leads
\* to it, in a later session or after the dialog was dismissed or the
\* session resumed another way.
C39_PromptOnlyAfterAppPause ==
    [][(dialog' /\ ~dialog) => pausedBy' = "app"]_vars

====
